---- MODULE Spec2Model ----
(***************************************************************************)
(* Model of BoneTexture.py: the BoneTextureLogic class (input validation,  *)
(* bin suggestion, asynchronous launch of the three feature CLI jobs and   *)
(* their status observers) and the BoneTextureWidget callbacks that drive  *)
(* it.                                                                     *)
(*                                                                         *)
(* Lengths (spacing, origin) are integers in units of 1e-5, so the         *)
(* tolerance 1e-04 of the source is 10.                                    *)
(***************************************************************************)
EXTENDS Integers, Sequences, FiniteSets, TLC

VARIABLES
    featuresGLCM,            \* BoneTextureLogic.featuresGLCM
    featuresGLRLM,           \* BoneTextureLogic.featuresGLRLM
    featuresBM,              \* BoneTextureLogic.featuresBM
    nodes,                   \* the CLI nodes created so far, in creation order
    observations,            \* VTKObservationMixin: the (node, method) pairs observed
    displayCalls,            \* number of calls of interface.onDisplayFeatures
    lastWarning,             \* message of slicer.util.warningDisplay in the last user action
    GLCMFeaturesValueDict,   \* BoneTextureWidget.GLCMFeaturesValueDict
    GLRLMFeaturesValueDict,  \* BoneTextureWidget.GLRLMFeaturesValueDict
    BMFeaturesValueDict,     \* BoneTextureWidget.BMFeaturesValueDict
    statisticsCalls,         \* number of calls of computeLabelStatistics
    launches,                \* per kind, the accepted clicks on Compute Features with it checked
    call                     \* a call of a pure function: its arguments and its result

vars == <<featuresGLCM, featuresGLRLM, featuresBM, nodes, observations, displayCalls,
          lastWarning, GLCMFeaturesValueDict, GLRLMFeaturesValueDict,
          BMFeaturesValueDict, statisticsCalls, launches, call>>

features == <<featuresGLCM, featuresGLRLM, featuresBM>>
dicts == <<GLCMFeaturesValueDict, GLRLMFeaturesValueDict, BMFeaturesValueDict>>

-----------------------------------------------------------------------------
(* Bounds of the model *)

MaxJobs == 3            \* CLI nodes created in one run of Spec
MaxUserJobs == 1        \* CLI nodes created in one run of SpecUser
MaxStatistics == 1      \* calls of computeLabelStatistics in one run of SpecUser
MaxIntensitySteps == 8  \* intensities range over -500*MaxIntensitySteps .. 500*MaxIntensitySteps

-----------------------------------------------------------------------------
(* Values *)

Kinds == {"GLCM", "GLRLM", "BM"}

\* Python None for a result slot, and a slot holding a list
None == [isNone |-> TRUE, list |-> <<>>]
List(l) == [isNone |-> FALSE, list |-> l]

\* no node selected in a combo box (currentNode() is None)
NoNode == [type |-> "None"]

Volume(type, dimensions, spacing, origin) ==
    [type |-> type, dimensions |-> dimensions, spacing |-> spacing, origin |-> origin]

\* the messages of slicer.util.warningDisplay, under the names of the error taxonomy
NoWarning == ""
MissingScan == "Please specify an input scan"
VectorTypeUnsupported ==
    "The input scan has a vector pixel type, please transform it to a scalar type first."
DimensionMismatch == "The input scan and the input segmentation must be the same size"
GeometryMismatch ==
    "The input scan and the input segmentation must overlap: same origin, spacing and orientation"
NoFeatureSelected == "Please select at least one type of features to compute"

Abs(x) == IF x < 0 THEN -x ELSE x
Max(x, y) == IF x >= y THEN x ELSE y

-----------------------------------------------------------------------------
(* BoneTextureLogic.isClose: every component within max(rel_tol * max(|a|,|b|), abs_tol).
   rel_tol is a rational relNum/relDen (the source passes 0.0). *)

isCloseStrict(a, b, relNum, relDen, abs_tol) ==
    \A i \in 1..Len(a) :
        Abs(a[i] - b[i]) * relDen < Max(relNum * Max(Abs(a[i]), Abs(b[i])), abs_tol * relDen)

isClose(a, b, relNum, relDen, abs_tol) ==
    \A i \in 1..Len(a) :
        Abs(a[i] - b[i]) * relDen <= Max(relNum * Max(Abs(a[i]), Abs(b[i])), abs_tol * relDen)

\* abs_tol = 1e-04 in units of 1e-5
AbsTol == 10

-----------------------------------------------------------------------------
(* BoneTextureLogic.inputDataVerification: the warning displayed, NoWarning when it
   returns True *)

inputDataVerificationGeometryFirst(inputScan, inputSegmentation) ==
    IF inputScan.type = "None" THEN MissingScan
    ELSE IF inputScan.type = "vector" THEN VectorTypeUnsupported
    ELSE IF inputSegmentation.type # "None" THEN
        IF \/ ~isClose(inputScan.spacing, inputSegmentation.spacing, 0, 1, AbsTol)
           \/ ~isClose(inputScan.origin, inputSegmentation.origin, 0, 1, AbsTol)
        THEN GeometryMismatch
        ELSE IF inputScan.dimensions # inputSegmentation.dimensions
        THEN DimensionMismatch
        ELSE NoWarning
    ELSE NoWarning

inputDataVerification(inputScan, inputSegmentation) ==
    IF inputScan.type = "None" THEN MissingScan
    ELSE IF inputScan.type = "vector" THEN VectorTypeUnsupported
    ELSE IF inputSegmentation.type # "None" THEN
        IF inputScan.dimensions # inputSegmentation.dimensions
        THEN DimensionMismatch
        ELSE IF \/ ~isClose(inputScan.spacing, inputSegmentation.spacing, 0, 1, AbsTol)
                \/ ~isClose(inputScan.origin, inputSegmentation.origin, 0, 1, AbsTol)
        THEN GeometryMismatch
        ELSE NoWarning
    ELSE NoWarning

\* The call self.inputDataVerification(inputScan, inputSegmentation) on the logic in
\* state P: the state it leaves and the warning it displays. The body assigns no
\* attribute and calls neither createNode, addObserver nor removeObservers.

\* the verification detaching the observers when it rejects
inputDataVerificationCallDetaches(P, inputScan, inputSegmentation) ==
    [P |-> IF inputDataVerification(inputScan, inputSegmentation) # NoWarning
           THEN [P EXCEPT !.observations = {}] ELSE P,
     warning |-> inputDataVerification(inputScan, inputSegmentation)]

inputDataVerificationCall(P, inputScan, inputSegmentation) ==
    [P |-> P, warning |-> inputDataVerification(inputScan, inputSegmentation)]

-----------------------------------------------------------------------------
(* BoneTextureLogic.computeBinsBasedOnIntensityRange *)

\* math.ceil(n / d) for an integer n >= 0 and d > 0
Ceil(n, d) == (n + d - 1) \div d

computeBinsFloor(minIntensityValue, maxIntensityValue) ==
    100 * (Abs(maxIntensityValue - minIntensityValue) \div 1000)

computeBinsBasedOnIntensityRange(minIntensityValue, maxIntensityValue) ==
    100 * Ceil(Abs(maxIntensityValue - minIntensityValue), 1000)

-----------------------------------------------------------------------------
(* The CLI nodes of the host (vtkMRMLCommandLineModuleNode) *)

\* vtkMRMLCommandLineModuleNode.IsBusy: the node is scheduled, running, cancelling or
\* completing
IsBusy(cliNode) == cliNode.status \in {"Scheduled", "Running", "Cancelling", "Completing"}

\* The status the runtime moves a busy node to when its job ends, with or without
\* errors. While the job is scheduled, running or completing the node stays busy, which
\* is all a handler reads of it: these statuses are one here, "Scheduled", and the
\* events of the changes between them are StatusModifiedEvent steps.
NextStatuses(status) ==
    CASE status = "Scheduled" -> {"Completed", "Completed with errors"}
      [] OTHER -> {}

Digits == <<"0", "1", "2", "3", "4", "5", "6", "7", "8", "9">>

\* The strings the finished job of node i may leave in its output parameter (2, 0), as
\* sequences of characters: two numbers, the second the number of the node, so that
\* the vectors of two jobs differ; or a number followed by a comma, which float refuses
Outputs(i) == { <<"7", ",", Digits[i + 1]>>, <<Digits[i + 1], ",">> }
IsDigit(c) == \E d \in 1..10 : Digits[d] = c
DigitValue(c) == (CHOOSE d \in 1..10 : Digits[d] = c) - 1

\* str.split(","): the pieces between the commas; a string without comma is one piece
RECURSIVE split(_)
split(str) ==
    IF \A i \in 1..Len(str) : str[i] # ","
    THEN <<str>>
    ELSE LET c == CHOOSE i \in 1..Len(str) :
                      str[i] = "," /\ \A j \in 1..(i - 1) : str[j] # ","
         IN <<SubSeq(str, 1, c - 1)>> \o split(SubSeq(str, c + 1, Len(str)))

\* float(piece) raises ValueError on an empty piece or one that is no number
FloatRaises(piece) == Len(piece) = 0 \/ \E i \in 1..Len(piece) : ~IsDigit(piece[i])

RECURSIVE float(_)
float(piece) ==
    IF Len(piece) = 0 THEN 0
    ELSE 10 * float(SubSeq(piece, 1, Len(piece) - 1)) + DigitValue(piece[Len(piece)])

\* list(map(float, str.split(",")))
ParseRaises(str) == \E k \in 1..Len(split(str)) : FloatRaises(split(str)[k])
ParseFloats(str) == [k \in 1..Len(split(str)) |-> float(split(str)[k])]

-----------------------------------------------------------------------------
(* VTKObservationMixin, as BoneTextureLogic uses it. An observation is a pair of a node
   (its index in nodes) and the observing method. *)

Observation(node, method) == [node |-> node, method |-> method]

\* self.addObserver(node, StatusModifiedEvent, method)
addObserver(obs, node, method) == obs \cup {Observation(node, method)}

\* removeObservers detaching the method from one node only, the oldest it observes
removeObserversOfOneNode(obs, method) ==
    {o \in obs : o.method # method \/ \E p \in obs : p.method = method /\ p.node < o.node}

\* self.removeObservers(method): every observation of that method, on whatever node
removeObservers(obs, method) == {o \in obs : o.method # method}

-----------------------------------------------------------------------------
(* The program state the logic works on, as a record P:
   featuresGLCM, featuresGLRLM, featuresBM, observations, displayCalls, nodes.
   nodes[i].handled counts the runs of a handler that found node i not busy. *)

Program == [featuresGLCM |-> featuresGLCM, featuresGLRLM |-> featuresGLRLM,
            featuresBM |-> featuresBM, observations |-> observations,
            displayCalls |-> displayCalls, nodes |-> nodes]

\* BoneTextureWidget.onDisplayFeatures, called through self.interface, which is the
\* widget that built the logic and never None
onDisplayFeatures(P) == [P EXCEPT !.displayCalls = @ + 1]

\* onGLCMNodeModified storing into the slot of another handler
onGLCMNodeModifiedWrongSlot(P, cliNode) ==
    IF ~IsBusy(cliNode)
    THEN LET P1 == [P EXCEPT !.observations = removeObservers(@, "onGLCMNodeModified")]
         IN IF cliNode.status = "Completed"
            THEN IF ParseRaises(cliNode.output)
                 THEN P1
                 ELSE onDisplayFeatures([P1 EXCEPT !.featuresGLRLM = List(ParseFloats(cliNode.output))])
            ELSE P1
    ELSE P

\* onGLCMNodeModified calling onDisplayFeatures outside the test of the status string
onGLCMNodeModifiedAlwaysDisplays(P, cliNode) ==
    IF ~IsBusy(cliNode)
    THEN LET P1 == [P EXCEPT !.observations = removeObservers(@, "onGLCMNodeModified")]
         IN IF cliNode.status = "Completed"
            THEN IF ParseRaises(cliNode.output)
                 THEN P1
                 ELSE onDisplayFeatures([P1 EXCEPT !.featuresGLCM = List(ParseFloats(cliNode.output))])
            ELSE onDisplayFeatures(P1)
    ELSE P

\* onGLCMNodeModified calling self.removeObservers() without its method
onGLCMNodeModifiedRemovesAll(P, cliNode) ==
    IF ~IsBusy(cliNode)
    THEN LET P1 == [P EXCEPT !.observations = {}]
         IN IF cliNode.status = "Completed"
            THEN IF ParseRaises(cliNode.output)
                 THEN P1
                 ELSE onDisplayFeatures([P1 EXCEPT !.featuresGLCM = List(ParseFloats(cliNode.output))])
            ELSE P1
    ELSE P

\* onGLCMNodeModified creating, observing and scheduling a new GLCM node with the
\* parameters of one that did not end Completed
onGLCMNodeModifiedRetries(P, cliNode) ==
    IF ~IsBusy(cliNode)
    THEN LET P1 == [P EXCEPT !.observations = removeObservers(@, "onGLCMNodeModified")]
         IN IF cliNode.status = "Completed"
            THEN IF ParseRaises(cliNode.output)
                 THEN P1
                 ELSE onDisplayFeatures([P1 EXCEPT !.featuresGLCM = List(ParseFloats(cliNode.output))])
            ELSE [P1 EXCEPT !.nodes = Append(@, [cliNode EXCEPT !.status = "Scheduled",
                                                                !.handled = 0]),
                            !.observations = addObserver(@, Len(P1.nodes) + 1,
                                                         "onGLCMNodeModified")]
    ELSE P

onGLCMNodeModified(P, cliNode) ==
    IF ~IsBusy(cliNode)
    THEN LET P1 == [P EXCEPT !.observations = removeObservers(@, "onGLCMNodeModified")]
         IN IF cliNode.status = "Completed"
            THEN IF ParseRaises(cliNode.output)
                 THEN P1   \* ValueError leaves the handler
                 ELSE onDisplayFeatures([P1 EXCEPT !.featuresGLCM = List(ParseFloats(cliNode.output))])
            ELSE P1
    ELSE P

onGLRLMNodeModified(P, cliNode) ==
    IF ~IsBusy(cliNode)
    THEN LET P1 == [P EXCEPT !.observations = removeObservers(@, "onGLRLMNodeModified")]
         IN IF cliNode.status = "Completed"
            THEN IF ParseRaises(cliNode.output)
                 THEN P1
                 ELSE onDisplayFeatures([P1 EXCEPT !.featuresGLRLM = List(ParseFloats(cliNode.output))])
            ELSE P1
    ELSE P

onBMNodeModified(P, cliNode) ==
    IF ~IsBusy(cliNode)
    THEN LET P1 == [P EXCEPT !.observations = removeObservers(@, "onBMNodeModified")]
         IN IF cliNode.status = "Completed"
            THEN IF ParseRaises(cliNode.output)
                 THEN P1
                 ELSE onDisplayFeatures([P1 EXCEPT !.featuresBM = List(ParseFloats(cliNode.output))])
            ELSE P1
    ELSE P

\* the node invokes StatusModifiedEvent: each method observing node i is called with it
Observed(P, i, method) == Observation(i, method) \in P.observations

Handled(P, i, method) ==
    IF Observed(P, i, method) /\ ~IsBusy(P.nodes[i])
    THEN [P EXCEPT !.nodes[i].handled = @ + 1]
    ELSE P

NotifyGLCM(P, i) ==
    IF Observed(P, i, "onGLCMNodeModified")
    THEN onGLCMNodeModified(Handled(P, i, "onGLCMNodeModified"), P.nodes[i])
    ELSE P

NotifyGLRLM(P, i) ==
    IF Observed(P, i, "onGLRLMNodeModified")
    THEN onGLRLMNodeModified(Handled(P, i, "onGLRLMNodeModified"), P.nodes[i])
    ELSE P

NotifyBM(P, i) ==
    IF Observed(P, i, "onBMNodeModified")
    THEN onBMNodeModified(Handled(P, i, "onBMNodeModified"), P.nodes[i])
    ELSE P

InvokeStatusModifiedEvent(P, i) == NotifyBM(NotifyGLRLM(NotifyGLCM(P, i), i), i)

-----------------------------------------------------------------------------
(* BoneTextureLogic.computeFeatures *)

\* slicer.cli.createNode(module, parameters): a new node, Idle, its output unset.
\* observedAtRun records, when the node is run, whether an observer was on it;
\* afterFailure records whether a node of the kind had ended other than Completed
\* when this one was created.
createNode(P, kind, parameters) ==
    [P EXCEPT !.nodes = Append(@, [kind |-> kind, status |-> "Idle", output |-> <<>>,
                                   parameters |-> parameters, handled |-> 0,
                                   observedAtRun |-> FALSE,
                                   afterFailure |->
                                       \E j \in 1..Len(P.nodes) :
                                           /\ P.nodes[j].kind = kind
                                           /\ ~IsBusy(P.nodes[j])
                                           /\ P.nodes[j].status # "Completed"])]

\* slicer.cli.run(module, node, parameters, wait_for_completion=False): the node is
\* scheduled, which invokes StatusModifiedEvent, and the call returns
run(P, i) ==
    InvokeStatusModifiedEvent(
        [P EXCEPT !.nodes[i].status = "Scheduled",
                  !.nodes[i].observedAtRun = \E o \in P.observations : o.node = i], i)

\* dict(valueDict): a new dictionary with the items of valueDict
dict(valueDict) == valueDict

\* parameters["inputVolume"] = inputScan; parameters["inputMask"] = inputSegmentation
JobParameters(parameters, inputScan, inputSegmentation) ==
    [inputVolume |-> inputScan, inputMask |-> inputSegmentation] @@ parameters

\* The launch of one kind: the program state after it, and the dictionary of the caller,
\* which the launch was handed by reference

\* the launch writing the two inputs into the dictionary it was handed
launchGLCMNoCopy(P, inputScan, inputSegmentation, valueDict) ==
    LET GLCMParameters == JobParameters(valueDict, inputScan, inputSegmentation)
        P1 == createNode(P, "GLCM", GLCMParameters)
        GLCMNode == Len(P1.nodes)
        P2 == [P1 EXCEPT !.observations = addObserver(@, GLCMNode, "onGLCMNodeModified")]
    IN [P |-> run(P2, GLCMNode), valueDict |-> GLCMParameters]

\* the launch emptying the slot of its kind
launchGLCMClearsSlot(P, inputScan, inputSegmentation, valueDict) ==
    LET GLCMParameters == JobParameters(dict(valueDict), inputScan, inputSegmentation)
        P1 == createNode([P EXCEPT !.featuresGLCM = None], "GLCM", GLCMParameters)
        GLCMNode == Len(P1.nodes)
        P2 == [P1 EXCEPT !.observations = addObserver(@, GLCMNode, "onGLCMNodeModified")]
    IN [P |-> run(P2, GLCMNode), valueDict |-> valueDict]

\* the launch detaching the observers of earlier nodes of its kind
launchGLCMReplacesObserver(P, inputScan, inputSegmentation, valueDict) ==
    LET GLCMParameters == JobParameters(dict(valueDict), inputScan, inputSegmentation)
        P1 == createNode(P, "GLCM", GLCMParameters)
        GLCMNode == Len(P1.nodes)
        P2 == [P1 EXCEPT !.observations =
                   addObserver(removeObservers(@, "onGLCMNodeModified"), GLCMNode,
                               "onGLCMNodeModified")]
    IN [P |-> run(P2, GLCMNode), valueDict |-> valueDict]

\* the launch running the node before observing it
launchGLCMRunsFirst(P, inputScan, inputSegmentation, valueDict) ==
    LET GLCMParameters == JobParameters(dict(valueDict), inputScan, inputSegmentation)
        P1 == createNode(P, "GLCM", GLCMParameters)
        GLCMNode == Len(P1.nodes)
        P2 == run(P1, GLCMNode)
    IN [P |-> [P2 EXCEPT !.observations = addObserver(@, GLCMNode, "onGLCMNodeModified")],
        valueDict |-> valueDict]

launchGLCM(P, inputScan, inputSegmentation, valueDict) ==
    LET GLCMParameters == JobParameters(dict(valueDict), inputScan, inputSegmentation)
        P1 == createNode(P, "GLCM", GLCMParameters)
        GLCMNode == Len(P1.nodes)
        P2 == [P1 EXCEPT !.observations = addObserver(@, GLCMNode, "onGLCMNodeModified")]
    IN [P |-> run(P2, GLCMNode), valueDict |-> valueDict]

launchGLRLM(P, inputScan, inputSegmentation, valueDict) ==
    LET GLRLMParameters == JobParameters(dict(valueDict), inputScan, inputSegmentation)
        P1 == createNode(P, "GLRLM", GLRLMParameters)
        GLRLMNode == Len(P1.nodes)
        P2 == [P1 EXCEPT !.observations = addObserver(@, GLRLMNode, "onGLRLMNodeModified")]
    IN [P |-> run(P2, GLRLMNode), valueDict |-> valueDict]

launchBM(P, inputScan, inputSegmentation, valueDict) ==
    LET BMParameters == JobParameters(dict(valueDict), inputScan, inputSegmentation)
        P1 == createNode(P, "BM", BMParameters)
        BMNode == Len(P1.nodes)
        P2 == [P1 EXCEPT !.observations = addObserver(@, BMNode, "onBMNodeModified")]
    IN [P |-> run(P2, BMNode), valueDict |-> valueDict]

\* what computeFeatures leaves behind: the program state, the warning displayed and the
\* three dictionaries of the caller
Returned(P, warning, GLCMDict, GLRLMDict, BMDict) ==
    [P |-> P, warning |-> warning, GLCMDict |-> GLCMDict, GLRLMDict |-> GLRLMDict,
     BMDict |-> BMDict]

\* R after the launch L of a kind
GLCMLaunched(R, L) == [R EXCEPT !.P = L.P, !.GLCMDict = L.valueDict]
GLRLMLaunched(R, L) == [R EXCEPT !.P = L.P, !.GLRLMDict = L.valueDict]
BMLaunched(R, L) == [R EXCEPT !.P = L.P, !.BMDict = L.valueDict]

\* the three if statements of computeFeatures, each on what the one before left
ifComputeGLCMFeatures(R, inputScan, inputSegmentation, computeGLCMFeatures) ==
    IF computeGLCMFeatures
    THEN GLCMLaunched(R, launchGLCM(R.P, inputScan, inputSegmentation, R.GLCMDict))
    ELSE R

ifComputeGLRLMFeatures(R, inputScan, inputSegmentation, computeGLRLMFeatures) ==
    IF computeGLRLMFeatures
    THEN GLRLMLaunched(R, launchGLRLM(R.P, inputScan, inputSegmentation, R.GLRLMDict))
    ELSE R

ifComputeBMFeatures(R, inputScan, inputSegmentation, computeBMFeatures) ==
    IF computeBMFeatures
    THEN BMLaunched(R, launchBM(R.P, inputScan, inputSegmentation, R.BMDict))
    ELSE R

computeFeaturesNoVerification(P, inputScan, inputSegmentation, computeGLCMFeatures, computeGLRLMFeatures, computeBMFeatures, GLCMDict, GLRLMDict, BMDict) ==
    IF ~(computeGLCMFeatures \/ computeGLRLMFeatures \/ computeBMFeatures)
    THEN Returned(P, NoFeatureSelected, GLCMDict, GLRLMDict, BMDict)
    ELSE ifComputeBMFeatures(
             ifComputeGLRLMFeatures(
                 ifComputeGLCMFeatures(
                     Returned(P, NoWarning, GLCMDict, GLRLMDict, BMDict),
                     inputScan, inputSegmentation, computeGLCMFeatures),
                 inputScan, inputSegmentation, computeGLRLMFeatures),
             inputScan, inputSegmentation, computeBMFeatures)

computeFeaturesNoSelectionCheck(P, inputScan, inputSegmentation, computeGLCMFeatures, computeGLRLMFeatures, computeBMFeatures, GLCMDict, GLRLMDict, BMDict) ==
    LET V == inputDataVerificationCall(P, inputScan, inputSegmentation)
    IN IF V.warning # NoWarning
    THEN Returned(V.P, V.warning, GLCMDict, GLRLMDict, BMDict)
    ELSE ifComputeBMFeatures(
             ifComputeGLRLMFeatures(
                 ifComputeGLCMFeatures(
                     Returned(V.P, NoWarning, GLCMDict, GLRLMDict, BMDict),
                     inputScan, inputSegmentation, TRUE),
                 inputScan, inputSegmentation, computeGLRLMFeatures),
             inputScan, inputSegmentation, computeBMFeatures)

computeFeatures(P, inputScan, inputSegmentation, computeGLCMFeatures, computeGLRLMFeatures, computeBMFeatures, GLCMDict, GLRLMDict, BMDict) ==
    LET V == inputDataVerificationCall(P, inputScan, inputSegmentation)
    IN IF V.warning # NoWarning
    THEN Returned(V.P, V.warning, GLCMDict, GLRLMDict, BMDict)
    ELSE IF ~(computeGLCMFeatures \/ computeGLRLMFeatures \/ computeBMFeatures)
    THEN Returned(V.P, NoFeatureSelected, GLCMDict, GLRLMDict, BMDict)
    ELSE ifComputeBMFeatures(
             ifComputeGLRLMFeatures(
                 ifComputeGLCMFeatures(
                     Returned(V.P, NoWarning, GLCMDict, GLRLMDict, BMDict),
                     inputScan, inputSegmentation, computeGLCMFeatures),
                 inputScan, inputSegmentation, computeGLRLMFeatures),
             inputScan, inputSegmentation, computeBMFeatures)

-----------------------------------------------------------------------------
(* BoneTextureLogic.computeColormaps *)

\* computeSingleColormap: slicer.cli.run(CLIname, None, parameters,
\* wait_for_completion=False) creates a node of the module and schedules it; the logic
\* observes nothing on it
computeSingleColormap(P, inputScan, inputSegmentation, CLIname, valueDict, outputName) ==
    LET parameters == [outputVolume |-> outputName]
                          @@ JobParameters(dict(valueDict), inputScan, inputSegmentation)
        P1 == createNode(P, CLIname, parameters)
    IN [P |-> run(P1, Len(P1.nodes)), valueDict |-> valueDict]

\* the three if statements of computeColormaps
ifComputeGLCMColormaps(R, inputScan, inputSegmentation, computeGLCMFeatures) ==
    IF computeGLCMFeatures
    THEN GLCMLaunched(R, computeSingleColormap(R.P, inputScan, inputSegmentation,
                                               "computeglcmfeaturemaps", R.GLCMDict,
                                               "GLCM_ColorMaps"))
    ELSE R

ifComputeGLRLMColormaps(R, inputScan, inputSegmentation, computeGLRLMFeatures) ==
    IF computeGLRLMFeatures
    THEN GLRLMLaunched(R, computeSingleColormap(R.P, inputScan, inputSegmentation,
                                                "computeglrlmfeaturemaps", R.GLRLMDict,
                                                "GLRLM_ColorMaps"))
    ELSE R

ifComputeBMColormaps(R, inputScan, inputSegmentation, computeBMFeatures) ==
    IF computeBMFeatures
    THEN BMLaunched(R, computeSingleColormap(R.P, inputScan, inputSegmentation,
                                             "computebmfeaturemaps", R.BMDict,
                                             "BM_ColorMaps"))
    ELSE R

computeColormaps(P, inputScan, inputSegmentation, computeGLCMFeatures, computeGLRLMFeatures, computeBMFeatures, GLCMDict, GLRLMDict, BMDict) ==
    LET V == inputDataVerificationCall(P, inputScan, inputSegmentation)
    IN IF V.warning # NoWarning
    THEN Returned(V.P, V.warning, GLCMDict, GLRLMDict, BMDict)
    ELSE IF ~(computeGLCMFeatures \/ computeGLRLMFeatures \/ computeBMFeatures)
    THEN Returned(V.P, NoFeatureSelected, GLCMDict, GLRLMDict, BMDict)
    ELSE ifComputeBMColormaps(
             ifComputeGLRLMColormaps(
                 ifComputeGLCMColormaps(
                     Returned(V.P, NoWarning, GLCMDict, GLRLMDict, BMDict),
                     inputScan, inputSegmentation, computeGLCMFeatures),
                 inputScan, inputSegmentation, computeGLRLMFeatures),
             inputScan, inputSegmentation, computeBMFeatures)

-----------------------------------------------------------------------------
(* The state after BoneTextureWidget.__init__ and setup *)

InitialGLCMFeaturesValueDict ==
    [insideMask |-> 1, binNumber |-> 10, pixelIntensityMin |-> 0,
     pixelIntensityMax |-> 4000, neighborhoodRadius |-> 4]

InitialGLRLMFeaturesValueDict ==
    [insideMask |-> 1, binNumber |-> 10, pixelIntensityMin |-> 0,
     pixelIntensityMax |-> 4000, neighborhoodRadius |-> 4, distanceMin |-> 0,
     distanceMax |-> 1]

InitialBMFeaturesValueDict == [threshold |-> 1, neighborhoodRadius |-> 4]

NoCall == [fn |-> "none"]

Init ==
    /\ featuresGLCM = None
    /\ featuresGLRLM = None
    /\ featuresBM = None
    /\ nodes = <<>>
    /\ observations = {}
    /\ displayCalls = 0
    /\ lastWarning = NoWarning
    /\ GLCMFeaturesValueDict = InitialGLCMFeaturesValueDict
    /\ GLRLMFeaturesValueDict = InitialGLRLMFeaturesValueDict
    /\ BMFeaturesValueDict = InitialBMFeaturesValueDict
    /\ statisticsCalls = 0
    /\ launches = [kind \in Kinds |-> 0]
    /\ call = NoCall

\* the variables of the logic take the values of the record P
Becomes(P) ==
    /\ nodes' = P.nodes
    /\ observations' = P.observations
    /\ featuresGLCM' = P.featuresGLCM
    /\ featuresGLRLM' = P.featuresGLRLM
    /\ featuresBM' = P.featuresBM
    /\ displayCalls' = P.displayCalls

-----------------------------------------------------------------------------
(* The volumes the user can select in Spec and SpecUser *)

BaseDimensions == <<256, 256, 100>>
BaseSpacing == <<50000, 50000, 50000>>
BaseOrigin == <<0, 0, 0>>

ScalarScan == Volume("scalar", BaseDimensions, BaseSpacing, BaseOrigin)
VectorScan == Volume("vector", BaseDimensions, BaseSpacing, BaseOrigin)
GoodMask == Volume("labelmap", BaseDimensions, BaseSpacing, <<5, 5, 5>>)
SmallMask == Volume("labelmap", <<256, 256, 99>>, BaseSpacing, BaseOrigin)
ShiftedMask == Volume("labelmap", BaseDimensions, BaseSpacing, <<0, 20, 0>>)

UserScans == {NoNode, VectorScan, ScalarScan}
UserMasks == {GoodMask, SmallMask, ShiftedMask}

\* the states of the three check boxes: GLCM, GLRLM, BM
Selections == BOOLEAN \X BOOLEAN \X BOOLEAN
SomeSelected == Selections \ {<<FALSE, FALSE, FALSE>>}

-----------------------------------------------------------------------------
(* Actions *)

\* The state the widget callbacks work on, as a record W: the logic, the three
\* dictionaries, the count of statistics calls and the warning displayed
Widget == [logic |-> Program, GLCMFeaturesValueDict |-> GLCMFeaturesValueDict,
           GLRLMFeaturesValueDict |-> GLRLMFeaturesValueDict,
           BMFeaturesValueDict |-> BMFeaturesValueDict,
           statisticsCalls |-> statisticsCalls, lastWarning |-> lastWarning]

WidgetBecomes(W) ==
    /\ Becomes(W.logic)
    /\ GLCMFeaturesValueDict' = W.GLCMFeaturesValueDict
    /\ GLRLMFeaturesValueDict' = W.GLRLMFeaturesValueDict
    /\ BMFeaturesValueDict' = W.BMFeaturesValueDict
    /\ statisticsCalls' = W.statisticsCalls
    /\ lastWarning' = W.lastWarning

\* BoneTextureWidget.onComputeFeatures, with the current nodes of the two combo boxes
\* and the states of the three check boxes
\* the widget after a call of the logic that left r: the logic, the warning on
\* display and the dictionaries it was handed
AfterCall(W, r) ==
    [W EXCEPT !.logic = r.P, !.lastWarning = r.warning,
              !.GLCMFeaturesValueDict = r.GLCMDict,
              !.GLRLMFeaturesValueDict = r.GLRLMDict,
              !.BMFeaturesValueDict = r.BMDict]

\* a click whose callback leaves the widget W; limit bounds the nodes of a run
Clicked(W, limit) ==
    /\ Len(W.logic.nodes) <= limit
    /\ WidgetBecomes(W)

\* the accepted clicks counted: W is the widget after the click, which is accepted
\* when computeFeatures got past its two checks, which display a warning
Counted(W, glcm, glrlm, bm) ==
    launches' = [kind \in Kinds |->
                    IF W.lastWarning = NoWarning
                       /\ (CASE kind = "GLCM" -> glcm [] kind = "GLRLM" -> glrlm
                             [] kind = "BM" -> bm)
                    THEN launches[kind] + 1 ELSE launches[kind]]

ClickedAndCounted(W, limit, glcm, glrlm, bm) ==
    /\ Clicked(W, limit)
    /\ Counted(W, glcm, glrlm, bm)

onComputeFeatures(W, inputScan, inputSegmentation, glcm, glrlm, bm) ==
    AfterCall(W, computeFeatures(W.logic, inputScan, inputSegmentation, glcm, glrlm, bm,
                                 W.GLCMFeaturesValueDict, W.GLRLMFeaturesValueDict,
                                 W.BMFeaturesValueDict))

\* BoneTextureWidget.onComputeColormaps, with the same nodes and check boxes
onComputeColormaps(W, inputScan, inputSegmentation, glcm, glrlm, bm) ==
    AfterCall(W, computeColormaps(W.logic, inputScan, inputSegmentation, glcm, glrlm, bm,
                                  W.GLCMFeaturesValueDict, W.GLRLMFeaturesValueDict,
                                  W.BMFeaturesValueDict))

\* the user clicks Compute Colormaps
ClickComputeColormaps(limit, inputScan, inputSegmentation, glcm, glrlm, bm) ==
    /\ Clicked(onComputeColormaps(Widget, inputScan, inputSegmentation, glcm, glrlm, bm),
               limit)
    /\ UNCHANGED <<launches, call>>

\* the user clicks Compute Features
ClickComputeFeatures(limit, inputScan, inputSegmentation, glcm, glrlm, bm) ==
    /\ ClickedAndCounted(
           onComputeFeatures(Widget, inputScan, inputSegmentation, glcm, glrlm, bm),
           limit, glcm, glrlm, bm)
    /\ UNCHANGED call

\* The runtime moves the busy node i to another status, a completed job having written
\* its output, and the node invokes StatusModifiedEvent
RuntimeSetStatus(i, status, output) ==
    /\ i \in 1..Len(nodes)
    /\ status \in NextStatuses(nodes[i].status)
    /\ output \in (IF status = "Completed" THEN Outputs(i) ELSE {nodes[i].output})
    /\ Becomes(InvokeStatusModifiedEvent(
                   [Program EXCEPT !.nodes[i].status = status, !.nodes[i].output = output], i))
    /\ UNCHANGED <<lastWarning, dicts, statisticsCalls, launches, call>>

\* A StatusModifiedEvent of node i with its status string as it is: the node went from
\* one busy status to another, or an event queued behind a later change is delivered
StatusModifiedEvent(i) ==
    /\ i \in 1..Len(nodes)
    /\ Becomes(InvokeStatusModifiedEvent(Program, i))
    /\ UNCHANGED <<lastWarning, dicts, statisticsCalls, launches, call>>

\* the user clicks Compute Features, the inputs and the selection taken from the sets given
UserLaunch(limit, scans, masks, selections) ==
    \E inputScan \in scans, inputSegmentation \in masks, sel \in selections :
        ClickComputeFeatures(limit, inputScan, inputSegmentation, sel[1], sel[2], sel[3])

RuntimeStep ==
    \E i \in 1..Len(nodes), status \in {"Completed", "Completed with errors"} :
        \E output \in Outputs(i) \cup {<<>>} :
            RuntimeSetStatus(i, status, output)

EventStep == \E i \in 1..Len(nodes) : StatusModifiedEvent(i)

\* BoneTextureLogic.computeLabelStatistics: the statistics module of the host returns
\* the minimum and maximum intensity inside the mask; which pair depends on the voxels
Statistics == { <<-500, 3000>>, <<0, 0>> }

\* BoneTextureWidget.onComputeParametersBasedOnInputs with a mask selected, minMax the
\* result of computeLabelStatistics; setting a spin box emits valueChanged, whose slot
\* writes the value into the dictionary
onComputeParametersBasedOnInputs(W, inputScan, inputSegmentation, minMax) ==
    LET V == inputDataVerificationCall(W.logic, inputScan, inputSegmentation)
    IN IF V.warning # NoWarning
    THEN [W EXCEPT !.logic = V.P, !.lastWarning = V.warning]
    ELSE LET minIntensityValue == minMax[1]
             maxIntensityValue == minMax[2]
             numBins == computeBinsBasedOnIntensityRange(minIntensityValue,
                                                         maxIntensityValue)
         IN [W EXCEPT !.logic = V.P,
                      !.lastWarning = NoWarning,
                      !.statisticsCalls = @ + 1,
                      !.GLCMFeaturesValueDict.binNumber = numBins,
                      !.GLCMFeaturesValueDict.pixelIntensityMin = minIntensityValue,
                      !.GLCMFeaturesValueDict.pixelIntensityMax = maxIntensityValue,
                      !.GLRLMFeaturesValueDict.binNumber = numBins,
                      !.GLRLMFeaturesValueDict.pixelIntensityMin = minIntensityValue,
                      !.GLRLMFeaturesValueDict.pixelIntensityMax = maxIntensityValue]

\* the user clicks the parameter suggestion
ClickComputeParameters(inputScan, inputSegmentation, minMax) ==
    LET W == onComputeParametersBasedOnInputs(Widget, inputScan, inputSegmentation, minMax)
    IN /\ W.statisticsCalls <= MaxStatistics
       /\ WidgetBecomes(W)
       /\ UNCHANGED <<launches, call>>

\* the user clicks Compute Colormaps with valid inputs
UserColormaps ==
    \E sel \in SomeSelected :
        ClickComputeColormaps(MaxUserJobs, ScalarScan, GoodMask, sel[1], sel[2], sel[3])

UserSuggest ==
    \E inputScan \in UserScans, inputSegmentation \in UserMasks, minMax \in Statistics :
        ClickComputeParameters(inputScan, inputSegmentation, minMax)

\* BoneTextureWidget.on*FeaturesValueDictModified, the slots of the spin boxes
onGLCMFeaturesValueDictModified(W, key, value) ==
    [W EXCEPT !.GLCMFeaturesValueDict[key] = value]

onGLRLMFeaturesValueDictModified(W, key, value) ==
    [W EXCEPT !.GLRLMFeaturesValueDict[key] = value]

onBMFeaturesValueDictModified(W, key, value) ==
    [W EXCEPT !.BMFeaturesValueDict[key] = value]

\* the spin boxes the user turns here, one of each dictionary, and the values set
SpinBoxes == { <<"GLCM", "binNumber">>, <<"GLRLM", "distanceMax">>, <<"BM", "threshold">> }
SpinBoxValues == {1, 2, 32}

\* the user sets a spin box to another value: valueChanged calls the slot of its key
EditSpinBox(kind, key, value) ==
    LET W == CASE kind = "GLCM" -> onGLCMFeaturesValueDictModified(Widget, key, value)
               [] kind = "GLRLM" -> onGLRLMFeaturesValueDictModified(Widget, key, value)
               [] kind = "BM" -> onBMFeaturesValueDictModified(Widget, key, value)
    IN /\ W # Widget
       /\ WidgetBecomes(W)
       /\ UNCHANGED <<launches, call>>

UserEdit ==
    \E box \in SpinBoxes, value \in SpinBoxValues : EditSpinBox(box[1], box[2], value)

Next ==
    \/ UserLaunch(MaxJobs, {ScalarScan}, {GoodMask}, SomeSelected)
    \/ RuntimeStep
    \/ EventStep

Spec == Init /\ [][Next]_vars

\* The user side alone: any selection of inputs and check boxes, no job ends
NextUser ==
    \/ UserLaunch(MaxUserJobs, UserScans, UserMasks \cup {NoNode}, Selections)
    \/ UserSuggest
    \/ UserColormaps

SpecUser == Init /\ [][NextUser]_vars

\* The user launching with valid inputs and editing parameters, no job ends
NextEdit ==
    \/ UserLaunch(MaxUserJobs, {ScalarScan}, {GoodMask}, SomeSelected)
    \/ UserEdit

SpecEdit == Init /\ [][NextEdit]_vars

-----------------------------------------------------------------------------
(* inputDataVerification as a function: the initial states draw the two volumes, the
   one action applies it *)

DimensionsChoices == { <<256, 256, 100>>, <<256, 256, 99>>, <<255, 256, 100>>, <<256, 257, 100>> }
SpacingOffsets == {-20, 0, 10, 11}
OriginOffsets == {-11, 0, 5, 10, 20}

Shifted(v, dx, dy, dz) == <<v[1] + dx, v[2] + dy, v[3] + dz>>

VerifyMasks ==
    { Volume("labelmap", d, Shifted(BaseSpacing, s1, s2, s3), Shifted(BaseOrigin, o1, o2, o3)) :
        d \in DimensionsChoices, s1 \in SpacingOffsets, s2 \in SpacingOffsets,
        s3 \in SpacingOffsets, o1 \in OriginOffsets, o2 \in OriginOffsets,
        o3 \in OriginOffsets }

FewMasks == {NoNode, GoodMask, SmallMask, ShiftedMask,
             Volume("labelmap", <<256, 256, 99>>, BaseSpacing, <<0, 20, 0>>)}

VerifyInputs ==
    ({NoNode, VectorScan, ScalarScan} \X FewMasks) \cup ({ScalarScan} \X VerifyMasks)

InitVerify ==
    /\ Init!1 /\ Init!2 /\ Init!3 /\ Init!4 /\ Init!5 /\ Init!6 /\ Init!7 /\ Init!8
    /\ Init!9 /\ Init!10 /\ Init!11 /\ Init!12
    /\ \E in \in VerifyInputs :
          call = [fn |-> "inputDataVerification", inputScan |-> in[1],
                  inputSegmentation |-> in[2], done |-> FALSE, result |-> NoWarning]

CallInputDataVerification ==
    /\ call.fn = "inputDataVerification"
    /\ ~call.done
    /\ LET V == inputDataVerificationCall(Program, call.inputScan, call.inputSegmentation)
       IN /\ Becomes(V.P)
          /\ call' = [call EXCEPT !.done = TRUE, !.result = V.warning]
    /\ UNCHANGED <<lastWarning, dicts, statisticsCalls, launches>>

SpecVerify == InitVerify /\ [][CallInputDataVerification]_vars

-----------------------------------------------------------------------------
(* computeBinsBasedOnIntensityRange as a function *)

Intensities ==
    { 500 * k + e : k \in (-MaxIntensitySteps)..MaxIntensitySteps, e \in {-1, 0, 1} }

InitBins ==
    /\ Init!1 /\ Init!2 /\ Init!3 /\ Init!4 /\ Init!5 /\ Init!6 /\ Init!7 /\ Init!8
    /\ Init!9 /\ Init!10 /\ Init!11 /\ Init!12
    /\ \E lo \in Intensities, hi \in Intensities :
          call = [fn |-> "computeBinsBasedOnIntensityRange", minIntensityValue |-> lo,
                  maxIntensityValue |-> hi, done |-> FALSE, result |-> 0]

CallComputeBins ==
    /\ call.fn = "computeBinsBasedOnIntensityRange"
    /\ ~call.done
    /\ call' = [call EXCEPT !.done = TRUE,
                            !.result = computeBinsBasedOnIntensityRange(
                                           call.minIntensityValue, call.maxIntensityValue)]
    /\ UNCHANGED <<features, nodes, observations, displayCalls, lastWarning, dicts,
                   statisticsCalls, launches>>

SpecBins == InitBins /\ [][CallComputeBins]_vars


-----------------------------------------------------------------------------
(* Reading the state by kind *)

Slot(kind) ==
    CASE kind = "GLCM" -> featuresGLCM
      [] kind = "GLRLM" -> featuresGLRLM
      [] kind = "BM" -> featuresBM

Method(kind) ==
    CASE kind = "GLCM" -> "onGLCMNodeModified"
      [] kind = "GLRLM" -> "onGLRLMNodeModified"
      [] kind = "BM" -> "onBMNodeModified"

\* the output of node i that is a list of numbers, and the numbers written in it
WellFormed(i) == <<"7", ",", Digits[i + 1]>>

ExpectedVector(i) == <<7, i>>

\* a handler found node i not busy in this step
HandledNow(i) ==
    /\ i \in 1..Len(nodes)
    /\ Len(nodes') = Len(nodes)
    /\ nodes'[i].handled = nodes[i].handled + 1

-----------------------------------------------------------------------------
(* C1: when the handler of kind K finds its job not busy with the status "Completed"
   and a well-formed output, slot K becomes the vector of numbers written in the
   output, the two other slots keep their values and onDisplayFeatures is called
   once; for every K and every prior content of the slots. *)
C1_CompletedStoresOwnSlot ==
    [][\A i \in 1..Len(nodes) :
          (/\ HandledNow(i)
           /\ nodes'[i].status = "Completed"
           /\ nodes'[i].output = WellFormed(i))
          => /\ Slot(nodes[i].kind)' = List(ExpectedVector(i))
             /\ \A k \in Kinds \ {nodes[i].kind} : Slot(k)' = Slot(k)
             /\ displayCalls' = displayCalls + 1]_vars

\* a second GLCM job overwrote the vector of the first while GLRLM holds its own
C1_Witness ==
    /\ Len(nodes) = 3
    /\ nodes[1].kind = "GLCM" /\ nodes[1].output = WellFormed(1) /\ nodes[1].handled = 1
    /\ nodes[2].kind = "GLRLM" /\ nodes[2].output = WellFormed(2) /\ nodes[2].handled = 1
    /\ nodes[3].kind = "GLCM" /\ nodes[3].output = WellFormed(3) /\ nodes[3].handled = 1
    /\ featuresGLCM = List(<<7, 3>>)
    /\ featuresGLRLM = List(<<7, 2>>)
    /\ featuresBM = None
    /\ displayCalls = 3

(* C2: when a handler finds its job not busy with a status other than "Completed",
   no slot changes (a vector stored before stays) and onDisplayFeatures is not
   called. *)
C2_NotCompletedLeavesSlot ==
    [][\A i \in 1..Len(nodes) :
          (HandledNow(i) /\ nodes'[i].status # "Completed")
          => /\ features' = features
             /\ displayCalls' = displayCalls]_vars

\* a GLCM job ended with errors after an earlier one had stored its vector
C2_Witness ==
    \E i, j \in 1..Len(nodes) :
        /\ i < j
        /\ nodes[i].kind = "GLCM" /\ nodes[i].status = "Completed" /\ nodes[i].handled = 1
        /\ nodes[j].kind = "GLCM" /\ nodes[j].status = "Completed with errors"
        /\ nodes[j].handled = 1
        /\ nodes[i].output = WellFormed(i)
        /\ featuresGLCM = List(ExpectedVector(i))
        /\ displayCalls = 1

\* what the outcome of a job alone puts in its slot, starting from None
OutcomeSlot(i) ==
    IF nodes[i].status = "Completed" /\ nodes[i].output = WellFormed(i)
    THEN List(ExpectedVector(i))
    ELSE None

\* one job of each kind was created and all three have ended
OneOfEachEnded ==
    /\ Len(nodes) = 3
    /\ \A k \in Kinds : \E i \in 1..3 : nodes[i].kind = k
    /\ \A i \in 1..3 : ~IsBusy(nodes[i])

(* C3: with one job of each kind, once the three jobs have ended each slot holds what
   the outcome of its own job determines, whatever the order in which the
   notifications of the three jobs arrived. *)
C3_OrderIndependent ==
    OneOfEachEnded => \A i \in 1..3 : Slot(nodes[i].kind) = OutcomeSlot(i)

C3_Witness ==
    /\ OneOfEachEnded
    /\ nodes[1].kind = "BM" /\ nodes[2].kind = "GLRLM" /\ nodes[3].kind = "GLCM"
    /\ featuresGLCM = List(<<7, 3>>)
    /\ featuresGLRLM = None
    /\ featuresBM = List(<<7, 1>>)
    /\ nodes[2].status = "Completed with errors"

(* C4: the handling of the terminal status of each job runs exactly once: every job
   that has ended was found not busy by its handler once. *)
C4_TerminalHandledOnce ==
    \A i \in 1..Len(nodes) : ~IsBusy(nodes[i]) => nodes[i].handled = 1

(* C5: at most one job of each kind is busy with its observer attached. *)
C5_OneRunningPerKind ==
    \A k \in Kinds :
        Cardinality({i \in 1..Len(nodes) :
                        /\ nodes[i].kind = k
                        /\ IsBusy(nodes[i])
                        /\ Observation(i, Method(k)) \in observations}) <= 1

-----------------------------------------------------------------------------
(* C6: in every reachable state, onComputeFeatures with inputs that pass the
   verification and none of the three check boxes checked displays the warning
   NoFeatureSelected, creates no node, registers no observer and changes no slot. *)
C6_NoFeatureSelected ==
    \A inputScan \in {ScalarScan}, inputSegmentation \in {NoNode, GoodMask} :
        LET W == onComputeFeatures(Widget, inputScan, inputSegmentation,
                                   FALSE, FALSE, FALSE)
        IN /\ W.lastWarning = NoFeatureSelected
           /\ W.logic.nodes = nodes
           /\ W.logic.observations = observations
           /\ W.logic.featuresGLCM = featuresGLCM
           /\ W.logic.featuresGLRLM = featuresGLRLM
           /\ W.logic.featuresBM = featuresBM

\* the warning is on display after an earlier click has launched a job
C6_Witness ==
    /\ lastWarning = NoFeatureSelected
    /\ Len(nodes) = 1
    /\ Cardinality(observations) = 1

\* the first rule of the verification that the two volumes break, from their geometry
ValidationError(inputScan, inputSegmentation) ==
    IF inputScan = NoNode THEN MissingScan
    ELSE IF inputScan = VectorScan THEN VectorTypeUnsupported
    ELSE IF inputSegmentation = SmallMask THEN DimensionMismatch
    ELSE IF inputSegmentation = ShiftedMask THEN GeometryMismatch
    ELSE NoWarning

(* C7: in every reachable state, onComputeFeatures and
   onComputeParametersBasedOnInputs with inputs that fail the verification display
   the verification's warning, whatever check boxes are checked, and do nothing
   else: no node is created, no observer registered, no statistics computed, no
   parameter value and no slot changed. *)
C7_ValidationAbortsBatch ==
    \A inputScan \in UserScans, inputSegmentation \in UserMasks \cup {NoNode} :
        ValidationError(inputScan, inputSegmentation) # NoWarning
        => LET aborted == [Widget EXCEPT !.lastWarning =
                                             ValidationError(inputScan, inputSegmentation)]
           IN /\ \A sel \in Selections :
                    onComputeFeatures(Widget, inputScan, inputSegmentation,
                                      sel[1], sel[2], sel[3]) = aborted
              /\ \A minMax \in Statistics :
                    onComputeParametersBasedOnInputs(Widget, inputScan, inputSegmentation,
                                                     minMax) = aborted

\* a verification warning is on display, with the jobs and the suggested parameters of
\* earlier clicks in place
C7_Witness ==
    /\ lastWarning = DimensionMismatch
    /\ Len(nodes) = 1
    /\ statisticsCalls = 1
    /\ GLCMFeaturesValueDict.binNumber = 400

-----------------------------------------------------------------------------
(* The rules of the verification, one by one *)

Present(volume) == volume.type # "None"
Axes == 1..3

Rule1Broken(scan, mask) == ~Present(scan)
Rule2Broken(scan, mask) == Present(scan) /\ scan.type = "vector"
Rule3Broken(scan, mask) ==
    Present(scan) /\ Present(mask) /\ \E x \in Axes : scan.dimensions[x] # mask.dimensions[x]
Rule4Broken(scan, mask) ==
    /\ Present(scan) /\ Present(mask)
    /\ \E x \in Axes : \/ scan.spacing[x] - mask.spacing[x] > AbsTol
                       \/ mask.spacing[x] - scan.spacing[x] > AbsTol
                       \/ scan.origin[x] - mask.origin[x] > AbsTol
                       \/ mask.origin[x] - scan.origin[x] > AbsTol

(* C8: inputDataVerification reports the first rule broken, in the order MissingScan,
   VectorTypeUnsupported (whatever the mask), DimensionMismatch (before spacing and
   origin are looked at), GeometryMismatch; without a mask every scalar scan is
   accepted; it returns success exactly when no rule is broken. *)
C8_FirstFailureWins ==
    (call.fn = "inputDataVerification" /\ call.done)
    => LET scan == call.inputScan
           mask == call.inputSegmentation
       IN /\ Rule1Broken(scan, mask) => call.result = MissingScan
          /\ Rule2Broken(scan, mask) => call.result = VectorTypeUnsupported
          /\ (scan.type = "scalar" /\ Rule3Broken(scan, mask))
                => call.result = DimensionMismatch
          /\ (scan.type = "scalar" /\ ~Rule3Broken(scan, mask) /\ Rule4Broken(scan, mask))
                => call.result = GeometryMismatch
          /\ (scan.type = "scalar" /\ ~Present(mask)) => call.result = NoWarning
          /\ (call.result = NoWarning) <=>
                ~(\/ Rule1Broken(scan, mask) \/ Rule2Broken(scan, mask)
                  \/ Rule3Broken(scan, mask) \/ Rule4Broken(scan, mask))

\* the mask is one slice short and shifted too: the dimensions are reported
C8_Witness ==
    /\ call.fn = "inputDataVerification" /\ call.done
    /\ call.inputScan = ScalarScan
    /\ Present(call.inputSegmentation)
    /\ call.inputSegmentation.dimensions = <<256, 256, 99>>
    /\ call.inputSegmentation.origin = <<0, 20, 0>>
    /\ call.result = DimensionMismatch

(* C9: for a scalar scan and a mask of the same dimensions, the verification accepts
   exactly when on every axis the spacings differ by at most 1e-4 and the origins
   differ by at most 1e-4, and reports GeometryMismatch otherwise. *)
C9_ToleranceIsInclusive ==
    (/\ call.fn = "inputDataVerification" /\ call.done
     /\ call.inputScan.type = "scalar"
     /\ Present(call.inputSegmentation)
     /\ call.inputScan.dimensions = call.inputSegmentation.dimensions)
    => LET scan == call.inputScan
           mask == call.inputSegmentation
           Within(a, b) == a - b <= AbsTol /\ b - a <= AbsTol
           allWithin == \A x \in Axes : /\ Within(scan.spacing[x], mask.spacing[x])
                                        /\ Within(scan.origin[x], mask.origin[x])
       IN /\ allWithin => call.result = NoWarning
          /\ ~allWithin => call.result = GeometryMismatch

\* origins 5e-5 apart on every axis, the spacing of one axis at the tolerance: accepted
C9_Witness ==
    /\ call.fn = "inputDataVerification" /\ call.done
    /\ call.inputScan = ScalarScan
    /\ Present(call.inputSegmentation)
    /\ call.inputSegmentation.dimensions = BaseDimensions
    /\ call.inputSegmentation.origin = <<5, 5, 5>>
    /\ call.inputSegmentation.spacing = Shifted(BaseSpacing, 0, 10, 0)
    /\ call.result = NoWarning

(* C10: for intensityMax >= intensityMin, computeBinsBasedOnIntensityRange returns
   100 * ceil((intensityMax - intensityMin) / 1000), a non-negative multiple of 100:
   400 for (0, 4000), 400 for (-500, 3000), 0 for (0, 0). *)
C10_BinsAreCeiling ==
    (/\ call.fn = "computeBinsBasedOnIntensityRange" /\ call.done
     /\ call.maxIntensityValue >= call.minIntensityValue)
    => LET range == call.maxIntensityValue - call.minIntensityValue
       IN /\ call.result >= 0
          /\ call.result % 100 = 0
          \* result / 100 is the least integer n with 1000 * n >= range
          /\ 10 * call.result >= range
          /\ 10 * (call.result - 100) < range
          /\ (call.minIntensityValue = 0 /\ call.maxIntensityValue = 4000)
                => call.result = 400
          /\ (call.minIntensityValue = -500 /\ call.maxIntensityValue = 3000)
                => call.result = 400
          /\ (call.minIntensityValue = 0 /\ call.maxIntensityValue = 0)
                => call.result = 0

C10_Witness ==
    /\ call.fn = "computeBinsBasedOnIntensityRange" /\ call.done
    /\ call.minIntensityValue = -500
    /\ call.maxIntensityValue = 3000
    /\ call.result = 400

(* C11: the number of bins computeBinsBasedOnIntensityRange returns is at least 100,
   for every pair of minimum and maximum intensity, equal ones included. *)
C11_AtLeast100Bins ==
    (call.fn = "computeBinsBasedOnIntensityRange" /\ call.done) => call.result >= 100

-----------------------------------------------------------------------------
\* the dictionary of the user for each kind, now and after setup
ValueDict(kind) ==
    CASE kind = "GLCM" -> GLCMFeaturesValueDict
      [] kind = "GLRLM" -> GLRLMFeaturesValueDict
      [] kind = "BM" -> BMFeaturesValueDict

InitialValueDict(kind) ==
    CASE kind = "GLCM" -> InitialGLCMFeaturesValueDict
      [] kind = "GLRLM" -> InitialGLRLMFeaturesValueDict
      [] kind = "BM" -> InitialBMFeaturesValueDict

(* C12: in every step (a launch or an edit of a spin box) the parameters of every node
   that exists stay as they are; a node the step creates holds the items the
   dictionary of its kind had when the step began, plus inputVolume and inputMask;
   and the dictionaries of the user keep the keys they had after setup, so
   inputVolume and inputMask are never added to them. *)
C12_JobsSnapshotParameters ==
    [][/\ \A i \in 1..Len(nodes) : nodes'[i].parameters = nodes[i].parameters
       /\ \A i \in (Len(nodes) + 1)..Len(nodes') :
             LET parameters == nodes'[i].parameters
                 valueDict == ValueDict(nodes'[i].kind)
             IN /\ DOMAIN parameters = DOMAIN valueDict \cup {"inputVolume", "inputMask"}
                /\ \A key \in DOMAIN valueDict : parameters[key] = valueDict[key]
                /\ parameters.inputVolume = ScalarScan
                /\ parameters.inputMask = GoodMask
       /\ \A kind \in Kinds :
             DOMAIN ValueDict(kind)' = DOMAIN InitialValueDict(kind)]_vars

\* the number of bins was edited before and after the launch of a GLCM job, which keeps
\* the value of the launch
C12_Witness ==
    /\ Len(nodes) = 1
    /\ nodes[1].kind = "GLCM"
    /\ nodes[1].parameters.binNumber = 2
    /\ nodes[1].parameters.inputVolume = ScalarScan
    /\ GLCMFeaturesValueDict.binNumber = 32
    /\ DOMAIN GLCMFeaturesValueDict = DOMAIN InitialGLCMFeaturesValueDict

-----------------------------------------------------------------------------
\* the lengths the table of onDisplayFeatures reads: range(8), range(10), range(5)
FixedLength(kind) ==
    CASE kind = "GLCM" -> 8
      [] kind = "GLRLM" -> 10
      [] kind = "BM" -> 5

(* C13: each result slot is None or a list of the fixed length of its kind: 8 for
   GLCM, 10 for GLRLM, 5 for BM. *)
C13_SlotsHaveFixedLength ==
    \A kind \in Kinds :
        Slot(kind).isNone \/ Len(Slot(kind).list) = FixedLength(kind)

\* the nodes of a kind
NodesOf(kind) == {i \in 1..Len(nodes) : nodes[i].kind = kind}

(* C14: for each kind, the nodes created are as many as the accepted clicks on Compute
   Features that had the kind checked; a node a handler has found not busy is never
   busy again; and the notification of a cancelled job, like the two other terminal
   statuses, adds no node and changes the status of no node. *)
C14_JobsOnlyFromLaunches ==
    /\ \A kind \in Kinds : Cardinality(NodesOf(kind)) = launches[kind]
    /\ \A i \in 1..Len(nodes) : nodes[i].handled >= 1 => ~IsBusy(nodes[i])
    /\ \A i \in 1..Len(nodes) :
          IsBusy(nodes[i])
          => LET Q == InvokeStatusModifiedEvent(
                          [Program EXCEPT !.nodes[i].status = "Cancelled"], i)
             IN /\ Len(Q.nodes) = Len(nodes)
                /\ \A j \in 1..Len(nodes) :
                      Q.nodes[j].status = IF j = i THEN "Cancelled" ELSE nodes[j].status

\* a GLCM job ended with errors, a second one was launched by a second click and
\* completed; there is no third node
C14_Witness ==
    /\ Len(nodes) = 2
    /\ launches = [kind \in Kinds |-> IF kind = "GLCM" THEN 2 ELSE 0]
    /\ nodes[1].status = "Completed with errors" /\ nodes[1].handled = 1
    /\ nodes[2].status = "Completed" /\ nodes[2].handled = 1
    /\ featuresGLCM = List(<<7, 2>>)

-----------------------------------------------------------------------------
\* the three slots of a program state
SlotsOf(P) == <<P.featuresGLCM, P.featuresGLRLM, P.featuresBM>>

OneKind == { <<TRUE, FALSE, FALSE>>, <<FALSE, TRUE, FALSE>>, <<FALSE, FALSE, TRUE>> }

(* C15: a slot that is not None has a node of its kind that a handler found
   Completed, so the slots are None at the start and until then; and in every
   reachable state the verification (accepting or rejecting), the parameter
   suggestion, the launch of features (of one kind or of all three, also of a kind
   whose slot is filled) and the launch of colormaps leave the three slots as they
   are. *)
C15_SlotsChangedByHandlersOnly ==
    /\ \A kind \in Kinds :
          ~Slot(kind).isNone
          => \E i \in NodesOf(kind) : nodes[i].status = "Completed" /\ nodes[i].handled >= 1
    /\ \A inputSegmentation \in {GoodMask, SmallMask} :
          SlotsOf(inputDataVerificationCall(Program, ScalarScan, inputSegmentation).P)
              = features
    /\ SlotsOf(onComputeFeatures(Widget, VectorScan, GoodMask, TRUE, TRUE, TRUE).logic)
           = features
    /\ SlotsOf(onComputeParametersBasedOnInputs(Widget, ScalarScan, GoodMask,
                                                <<-500, 3000>>).logic) = features
    /\ \A sel \in OneKind \cup { <<TRUE, TRUE, TRUE>> } :
          SlotsOf(onComputeFeatures(Widget, ScalarScan, GoodMask,
                                    sel[1], sel[2], sel[3]).logic) = features
    /\ SlotsOf(onComputeColormaps(Widget, ScalarScan, GoodMask, TRUE, TRUE, TRUE).logic)
           = features

\* GLCM was launched again after its slot was filled; the BM job ended with errors and
\* its slot is None
C15_Witness ==
    /\ Len(nodes) = 3
    /\ nodes[1].kind = "GLCM" /\ nodes[1].status = "Completed" /\ nodes[1].handled = 1
    /\ nodes[2].kind = "BM" /\ nodes[2].status = "Completed with errors"
    /\ nodes[3].kind = "GLCM" /\ IsBusy(nodes[3])
    /\ featuresGLCM = List(<<7, 1>>)
    /\ featuresGLRLM = None
    /\ featuresBM = None

-----------------------------------------------------------------------------
(* C16: when a job of kind K that was launched after a job of kind K had ended with
   errors reports Completed with a list of numbers, the vector of the job is stored
   in slot K and onDisplayFeatures is called. *)
C16_RetryStoresResult ==
    [][\A i \in 1..Len(nodes) :
          (/\ nodes[i].afterFailure
           /\ IsBusy(nodes[i])
           /\ nodes'[i].status = "Completed"
           /\ nodes'[i].output = WellFormed(i))
          => /\ Slot(nodes[i].kind)' = List(ExpectedVector(i))
             /\ displayCalls' = displayCalls + 1]_vars

(* C17: in every reachable state the call of inputDataVerification, on inputs it
   accepts and on inputs it rejects, leaves the state of the logic as it is (nodes,
   observers, the three slots, the calls of onDisplayFeatures) and yields only its
   result, the warning of the first rule broken. *)
C17_VerificationIsPure ==
    \A inputScan \in UserScans, inputSegmentation \in UserMasks \cup {NoNode} :
        inputDataVerificationCall(Program, inputScan, inputSegmentation)
            = [P |-> Program, warning |-> ValidationError(inputScan, inputSegmentation)]

\* the verification accepted the second click, made with an observer attached and a
\* slot filled
C17_Witness ==
    /\ Len(nodes) = 3
    /\ nodes[1].kind = "GLRLM" /\ IsBusy(nodes[1])
    /\ nodes[2].kind = "BM" /\ nodes[2].status = "Completed" /\ nodes[2].handled = 1
    /\ nodes[3].kind = "BM" /\ IsBusy(nodes[3])
    /\ launches["GLRLM"] = 1 /\ launches["BM"] = 2
    /\ featuresBM = List(<<7, 2>>)
    /\ Cardinality(observations) = 2
    /\ lastWarning = NoWarning

\* the kinds checked in a selection, in the order computeFeatures goes through them
RECURSIVE SelectedKinds(_, _)
SelectedKinds(sel, n) ==
    IF n > 3 THEN <<>>
    ELSE (IF sel[n] THEN << <<"GLCM", "GLRLM", "BM">>[n] >> ELSE <<>>)
             \o SelectedKinds(sel, n + 1)

(* C18: every node was run with its observer already on it and none is left Idle; and
   in every reachable state an accepted launch appends one node for each kind checked,
   in the order GLCM, GLRLM, BM, and none for the others, leaves the earlier nodes as
   they are, and returns with each new node scheduled (busy), observed by the handler
   of its kind and not yet handled; createNode gives a node in the status Idle. *)
C18_LaunchCreatesObservesRuns ==
    /\ \A i \in 1..Len(nodes) : nodes[i].observedAtRun /\ nodes[i].status # "Idle"
    /\ \A kind \in Kinds :
          LET Q == createNode(Program, kind, InitialValueDict(kind))
          IN Len(Q.nodes) = Len(nodes) + 1 /\ Q.nodes[Len(Q.nodes)].status = "Idle"
    /\ \A sel \in SomeSelected :
          LET Q == computeFeatures(Program, ScalarScan, GoodMask, sel[1], sel[2], sel[3],
                                   GLCMFeaturesValueDict, GLRLMFeaturesValueDict,
                                   BMFeaturesValueDict).P
              kinds == SelectedKinds(sel, 1)
          IN /\ Len(Q.nodes) = Len(nodes) + Len(kinds)
             /\ SubSeq(Q.nodes, 1, Len(nodes)) = nodes
             /\ \A n \in 1..Len(kinds) :
                   LET i == Len(nodes) + n
                   IN /\ Q.nodes[i].kind = kinds[n]
                      /\ Q.nodes[i].status = "Scheduled"
                      /\ Q.nodes[i].observedAtRun
                      /\ Q.nodes[i].handled = 0
                      /\ Observation(i, Method(kinds[n])) \in Q.observations

\* one click with GLRLM and BM checked
C18_Witness ==
    /\ Len(nodes) = 2
    /\ nodes[1].kind = "GLRLM" /\ nodes[1].status = "Scheduled" /\ nodes[1].observedAtRun
    /\ nodes[2].kind = "BM" /\ nodes[2].status = "Scheduled" /\ nodes[2].observedAtRun
    /\ launches = [kind \in Kinds |-> IF kind = "GLCM" THEN 0 ELSE 1]
    /\ observations = {Observation(1, "onGLRLMNodeModified"),
                       Observation(2, "onBMNodeModified")}

\* the observations of the handler of a kind
ObservationsOf(obs, kind) == {o \in obs : o.method = Method(kind)}

\* the selection with only this kind checked
Only(kind) == <<kind = "GLCM", kind = "GLRLM", kind = "BM">>

(* C19: in every reachable state where a node of kind K is busy with its observer
   attached, a click on Compute Features with K checked is accepted without a
   warning: a second node of kind K is created, scheduled and observed, every
   observation there was stays, and so the handler of K observes two nodes. *)
C19_RelaunchAddsSecondObserver ==
    \A kind \in Kinds :
        (\E i \in NodesOf(kind) :
            IsBusy(nodes[i]) /\ Observation(i, Method(kind)) \in observations)
        => LET sel == Only(kind)
               W == onComputeFeatures(Widget, ScalarScan, GoodMask, sel[1], sel[2], sel[3])
               new == Len(nodes) + 1
           IN /\ W.lastWarning = NoWarning
              /\ Len(W.logic.nodes) = new
              /\ W.logic.nodes[new].kind = kind
              /\ IsBusy(W.logic.nodes[new])
              /\ observations \subseteq W.logic.observations
              /\ Observation(new, Method(kind)) \in W.logic.observations
              /\ Cardinality(ObservationsOf(W.logic.observations, kind)) >= 2

\* two GLCM nodes busy, each with onGLCMNodeModified observing it
C19_Witness ==
    /\ Len(nodes) = 2
    /\ nodes[1].kind = "GLCM" /\ IsBusy(nodes[1])
    /\ nodes[2].kind = "GLCM" /\ IsBusy(nodes[2])
    /\ observations = {Observation(1, "onGLCMNodeModified"),
                       Observation(2, "onGLCMNodeModified")}
    /\ launches["GLCM"] = 2

(* C20: a handler step that finds its node not busy removes every observation of its
   own method, on all nodes, and no observation of the two other methods; a node
   without observation never gets one again; when a node without observation ends,
   nothing is stored, onDisplayFeatures is not called and the node is not handled;
   and a slot never holds the vector of a node that was not handled. *)
C20_HandlerDetachesWholeKind ==
    [][\A i \in 1..Len(nodes) :
          LET kind == nodes[i].kind
              observed == Observation(i, Method(kind)) \in observations
          IN /\ HandledNow(i)
                => observations' = {o \in observations : o.method # Method(kind)}
             /\ ~observed => Observation(i, Method(kind)) \notin observations'
             /\ (~observed /\ IsBusy(nodes[i]) /\ ~IsBusy(nodes'[i]))
                => /\ features' = features
                   /\ displayCalls' = displayCalls
                   /\ observations' = observations
                   /\ nodes'[i].handled = 0
             /\ nodes'[i].handled = 0 => Slot(kind)' # List(ExpectedVector(i))]_vars

\* of two GLCM jobs in flight the second one ended first and was stored; the first one
\* completed after it and was neither stored nor handled
C20_Witness ==
    /\ Len(nodes) = 2
    /\ nodes[1].kind = "GLCM" /\ nodes[1].status = "Completed"
    /\ nodes[1].output = WellFormed(1) /\ nodes[1].handled = 0
    /\ nodes[2].kind = "GLCM" /\ nodes[2].status = "Completed" /\ nodes[2].handled = 1
    /\ featuresGLCM = List(<<7, 2>>)
    /\ displayCalls = 1
    /\ observations = {}

-----------------------------------------------------------------------------
(* Jobs that end: the specification of the runs in which no job hangs *)

\* the job of node i ends, with or without errors, and the node invokes
\* StatusModifiedEvent with its status no longer busy
JobEnds(i) ==
    \E status \in {"Completed", "Completed with errors"} :
        \E output \in Outputs(i) \cup {<<>>} :
            RuntimeSetStatus(i, status, output)

\* The runs of Spec in which the host ends every job it was given and delivers the
\* event of the end. The clicks of the user are not fair: the user may stop at any time.
SpecLive == Init /\ [][Next]_vars /\ \A i \in 1..MaxJobs : WF_vars(JobEnds(i))

\* node i exists and its job has not ended
BusyJob(i) == i \in 1..Len(nodes) /\ IsBusy(nodes[i])

\* a method of the logic observes node i
ObservedJob(i) == \E o \in observations : o.node = i

\* when every job ends and its event is delivered, and the user launches no more, no
\* observation is left from some state on
C21_EventuallyNoObserver == <>[](observations = {})

\* as long as a job that was run with its observer stays busy, the observer stays and
\* the job is not handled as ended
C21_BusyJobKeepsObserver ==
    [][\A i \in 1..Len(nodes) :
          (BusyJob(i) /\ nodes[i].observedAtRun /\ ObservedJob(i) /\ IsBusy(nodes'[i]))
          => /\ \E o \in observations' : o.node = i
             /\ nodes'[i].handled = 0]_vars

(* C21: when the host delivers the events one at a time and every job that was
   launched ends and delivers the event of its end, then once the user launches no
   more, eventually no observation is left; and a job that stays busy keeps its
   observer for as long as it is busy, and is never handled as ended, since nothing
   in the logic detaches an observer on a timeout or a cancellation. *)
C21_ObserversLastAsLongAsJobs ==
    /\ C21_EventuallyNoObserver
    /\ C21_BusyJobKeepsObserver

====
